---- MODULE Spec2Model ----
(***************************************************************************)
(* Model of the capture service of the screenshot application              *)
(* (src/src/capture.rs, src/src/types.rs).                                 *)
(*                                                                         *)
(* Numbers.  Logical coordinates are f32 values that come from the         *)
(* platform's integer screen descriptors and from callers; they are        *)
(* modelled by integers.  A DPI scale is a fraction n/DpiDen, held as its  *)
(* numerator n, so a physical coordinate (logical * scale) is held as the  *)
(* numerator of a fraction over DpiDen, and the center of a rectangle      *)
(* ((min+max)/2) as the numerator of a fraction over 2.  All comparisons   *)
(* are made on numerators over the same denominator, so they are exact.    *)
(* f32 rounding, NaN and infinities are outside the model.                 *)
(*                                                                         *)
(* Library semantics used by the code and modelled here:                   *)
(*   egui::Rect::contains   min.x <= p.x <= max.x /\ min.y <= p.y <= max.y *)
(*                          (closed on both sides)                         *)
(*   f32 as u32             truncation toward zero, saturating at 0        *)
(*   DynamicImage::crop_imm clips the requested rectangle to the image     *)
(*   HashMap::values        an unspecified order, fixed while the map is   *)
(*                          not modified                                   *)
(***************************************************************************)
EXTENDS Integers, Sequences, FiniteSets, TLC

\* ------------------------------------------------------------------ bounds
\* The largest number of displays the platform reports.
MaxScreens == 2
\* Denominator of the DPI scale fractions: scale 1.0 is DpiDen/DpiDen.
DpiDen == 2

\* The largest number of frames the editor window draws.
MaxFrames == 3

\* --------------------------------------------------------------- constants
\* f32::MAX, the sentinel of get_desktop_bounds.  It is only compared with
\* coordinates, all of which are far below it; it is represented by the
\* largest integer of the checker.
F32_MAX == 2147483647
F32_MIN == -F32_MAX
\* The size of the fallback desktop rectangle.
DefaultWidth == 1920
DefaultHeight == 1080
\* Zoom levels of the editor, in hundredths: 1.0, and the limits 0.1 and 10.0.
ZoomOne == 100
MinZoom == 10
MaxZoom == 1000
\* The canvas size of the editor and the part of the image kept visible.
CanvasWidth == 800
CanvasHeight == 600
MinVisibleSize == 50
\* The size of the editor's test image.
TestImageWidth == 400
TestImageHeight == 300

\* ---------------------------------------------------------------- geometry
Pos2(px, py) == [x |-> px, y |-> py]
Vec2(vx, vy) == [x |-> vx, y |-> vy]
RectFromMinMax(pmin, pmax) == [min |-> pmin, max |-> pmax]
RectFromMinSize(pmin, size) ==
  [min |-> pmin, max |-> Pos2(pmin.x + size.x, pmin.y + size.y)]
RectWidth(r) == r.max.x - r.min.x
RectHeight(r) == r.max.y - r.min.y
Min2(a, b) == IF a <= b THEN a ELSE b
Max2(a, b) == IF a >= b THEN a ELSE b

\* Rect::center() = (min + max) / 2, as numerators over 2.
RectCenter2(r) == Pos2(r.min.x + r.max.x, r.min.y + r.max.y)

\* Rect::contains(p) for a point given as numerators over 2: closed on both
\* sides.
RectContains2(r, p2) ==
  /\ 2 * r.min.x <= p2.x /\ p2.x <= 2 * r.max.x
  /\ 2 * r.min.y <= p2.y /\ p2.y <= 2 * r.max.y

\* Rect::contains(p) for a point with integer coordinates.
RectContains(r, p) == RectContains2(r, Pos2(2 * p.x, 2 * p.y))

\* ---------------------------------------------------------------- platform
\* The displays the platform can report: screenshots::Screen descriptors
\* (x, y: i32 position in desktop space; width, height: u32 size).
Display(dx, dy, dw, dh) == [x |-> dx, y |-> dy, width |-> dw, height |-> dh]
DisplayPool ==
  { Display(0, 0, 4, 2),     \* at the desktop origin
    Display(4, 0, 4, 2),     \* right neighbour, shares the edge x = 4
    Display(-2, 2, 2, 3) }   \* below and to the left, negative x offset

IsInjective(s) == \A i, j \in DOMAIN s : i # j => s[i] # s[j]

\* What Screen::all() can return: up to MaxScreens distinct displays.
DisplayConfigs ==
  { s \in UNION { [1..n -> DisplayPool] : n \in 0..MaxScreens } : IsInjective(s) }

\* The iteration orders a HashMap with keys 0..n-1 can have.
Orders(n) == { s \in [1..n -> 0..(n - 1)] : IsInjective(s) }

\* Outcomes of the platform capture primitive followed by the decoder.
CaptureOutcomes == {"image", "refused", "undecodable"}

\* ------------------------------------------------------------------ errors
\* Every error of the service is AppError::ScreenCapture(message).
ScreenCaptureError(m) == [variant |-> "ScreenCapture", msg |-> m, index |-> -1]
ScreenCaptureErrorAt(m, i) == [variant |-> "ScreenCapture", msg |-> m, index |-> i]
NoDisplays == ScreenCaptureError("No screens found on the system")
ScreenNotFound(i) == ScreenCaptureErrorAt("Screen index {} not found", i)
CaptureFailed(i) == ScreenCaptureErrorAt("Failed to capture screen {}", i)
DecodeFailed == ScreenCaptureError("Failed to decode PNG data: {}")
AreaOutOfBounds == ScreenCaptureError("Capture area extends beyond screen boundaries")
ScreenInfoNotFound(i) == ScreenCaptureErrorAt("Screen info for index {} not found", i)
NoPrimaryScreen == ScreenCaptureError("No primary screen found")
SelectionNotOnScreen == ScreenCaptureError("Selection area is not within any screen")

Ok(v) == [ok |-> TRUE, val |-> v]
Err(e) == [ok |-> FALSE, err |-> e]
Some(v) == [some |-> TRUE, val |-> v]
None == [some |-> FALSE]
Unit == "()"

\* ------------------------------------------------------------------- state
VARIABLES
  displays,      \* the platform's current displays (what Screen::all() returns)
  constructed,   \* TRUE once a CaptureService value exists
  screens,       \* CaptureService.screens: Vec<Screen>
  screen_cache,  \* CaptureService.screen_cache: HashMap<usize, ScreenInfo>
  iter_order,    \* the iteration order of screen_cache (a sequence of its keys)
  last,          \* the last call: operation, arguments, result, platform steps
  editor,        \* the EditorApp value of the editor window
  frame          \* the number of frames the editor window has drawn

vars == <<displays, constructed, screens, screen_cache, iter_order, last,
          editor, frame>>

EmptyCache == [i \in {} |-> 0]

\* Mutant of refresh_screen_info: the bounds are built with from_min_max, the
\* size taken as the max corner.
ScreenInfoOfMinMax(index, screen) ==
  [ index |-> index,
    bounds |-> RectFromMinMax(Pos2(screen.x, screen.y),
                              Pos2(screen.width, screen.height)),
    dpi_scale_x |-> DpiDen,
    dpi_scale_y |-> DpiDen,
    is_primary |-> (index = 0) ]

\* Mutant of refresh_screen_info: the primary flag is given only when no
\* screen was registered before the refresh.
ScreenInfoOfFirstTimePrimary(index, screen) ==
  [ index |-> index,
    bounds |-> RectFromMinSize(Pos2(screen.x, screen.y),
                               Vec2(screen.width, screen.height)),
    dpi_scale_x |-> DpiDen,
    dpi_scale_y |-> DpiDen,
    is_primary |-> (index = 0 /\ DOMAIN screen_cache = {}) ]

\* ScreenInfo built by refresh_screen_info for the screen at position index.
ScreenInfoOf(index, screen) ==
  [ index |-> index,
    bounds |-> RectFromMinSize(Pos2(screen.x, screen.y),
                               Vec2(screen.width, screen.height)),
    dpi_scale_x |-> DpiDen,
    dpi_scale_y |-> DpiDen,
    is_primary |-> (index = 0) ]

\* Mutant of refresh_screen_info: the map is not cleared, so the entries of
\* the previous configuration that are not overwritten stay.
RebuiltCacheNotCleared(enumerated) ==
  [ i \in (DOMAIN screen_cache) \cup (0..(Len(enumerated) - 1)) |->
      IF i < Len(enumerated) THEN ScreenInfoOf(i, enumerated[i + 1])
      ELSE screen_cache[i] ]

\* The cache refresh_screen_info builds from an enumeration.
RebuiltCache(enumerated) ==
  [ i \in 0..(Len(enumerated) - 1) |-> ScreenInfoOf(i, enumerated[i + 1]) ]

\* screen_cache.values(): the entries in the map's iteration order.
CacheValues == [ k \in 1..Len(iter_order) |-> screen_cache[iter_order[k]] ]

\* Iterator::find: the first element of a sequence among the positions
\* (hits) whose elements satisfy the predicate.
FindFirst(seq, hits) ==
  IF hits = {} THEN None
  ELSE Some(seq[CHOOSE k \in hits : \A m \in hits : k <= m])

Call(name, a, r) ==
  [ op |-> name, arg |-> a, res |-> r, outcome |-> "none",
    captures |-> 0, cropped |-> FALSE ]

\* ----------------------------------------------------------------- queries
\* get_screen_info
GetScreenInfo(screen_index) ==
  IF screen_index \in DOMAIN screen_cache
  THEN Ok(screen_cache[screen_index])
  ELSE Err(ScreenInfoNotFound(screen_index))

\* Mutant of get_primary_screen: the first entry of values() is returned
\* whatever its flag.
GetPrimaryScreenFirstEntry ==
  LET found == FindFirst(CacheValues, 1..Len(iter_order))
  IN  IF found.some THEN Ok(found.val) ELSE Err(NoPrimaryScreen)

\* get_primary_screen
GetPrimaryScreen ==
  LET found == FindFirst(CacheValues,
                         { k \in 1..Len(iter_order) : CacheValues[k].is_primary })
  IN  IF found.some THEN Ok(found.val) ELSE Err(NoPrimaryScreen)

\* The fold of get_desktop_bounds over the first k entries of values().
RECURSIVE DesktopFold(_)
DesktopFold(k) ==
  IF k = 0
  THEN [min_x |-> F32_MAX, min_y |-> F32_MAX, max_x |-> F32_MIN, max_y |-> F32_MIN]
  ELSE LET acc == DesktopFold(k - 1)
           b == CacheValues[k].bounds
       IN  [ min_x |-> Min2(acc.min_x, b.min.x),
             min_y |-> Min2(acc.min_y, b.min.y),
             max_x |-> Max2(acc.max_x, b.max.x),
             max_y |-> Max2(acc.max_y, b.max.y) ]

\* Mutant of get_desktop_bounds: each bound is assigned instead of folded,
\* so the result is the bounds of the screen iterated last.
GetDesktopBoundsAssigned ==
  IF Len(iter_order) = 0
  THEN [ path |-> "default",
         rect |-> RectFromMinSize(Pos2(0, 0), Vec2(DefaultWidth, DefaultHeight)) ]
  ELSE [ path |-> "fold", rect |-> CacheValues[Len(iter_order)].bounds ]

\* Mutant of get_desktop_bounds: the max corner is built with min_y.
GetDesktopBoundsPastedCorner ==
  LET f == DesktopFold(Len(iter_order))
  IN  IF f.min_x = F32_MAX
      THEN [ path |-> "default",
             rect |-> RectFromMinSize(Pos2(0, 0), Vec2(DefaultWidth, DefaultHeight)) ]
      ELSE [ path |-> "fold",
             rect |-> RectFromMinMax(Pos2(f.min_x, f.min_y), Pos2(f.max_x, f.min_y)) ]

\* Mutant of get_desktop_bounds: the empty-registry fallback is missing.
GetDesktopBoundsNoFallback ==
  LET f == DesktopFold(Len(iter_order))
  IN  [ path |-> "fold",
        rect |-> RectFromMinMax(Pos2(f.min_x, f.min_y), Pos2(f.max_x, f.max_y)) ]

\* get_desktop_bounds; path records which return statement produced the value.
GetDesktopBounds ==
  LET f == DesktopFold(Len(iter_order))
  IN  IF f.min_x = F32_MAX
      THEN [ path |-> "default",
             rect |-> RectFromMinSize(Pos2(0, 0), Vec2(DefaultWidth, DefaultHeight)) ]
      ELSE [ path |-> "fold",
             rect |-> RectFromMinMax(Pos2(f.min_x, f.min_y), Pos2(f.max_x, f.max_y)) ]

\* find_screen_at_point for a point given as numerators over 2.
FindScreenAtPoint2(p2) ==
  FindFirst(CacheValues,
            { k \in 1..Len(iter_order) : RectContains2(CacheValues[k].bounds, p2) })

\* find_screen_at_point
FindScreenAtPoint(p) == FindScreenAtPoint2(Pos2(2 * p.x, 2 * p.y))

\* ------------------------------------------------------------ capture area
\* CaptureArea::new
CaptureAreaNew(bounds, screen_index) ==
  [ bounds |-> bounds, screen_index |-> screen_index,
    dpi_scale_x |-> DpiDen, dpi_scale_y |-> DpiDen ]

\* CaptureArea::with_dpi_scaling
CaptureAreaWithDpiScaling(bounds, screen_index, dpi_scale_x, dpi_scale_y) ==
  [ bounds |-> bounds, screen_index |-> screen_index,
    dpi_scale_x |-> dpi_scale_x, dpi_scale_y |-> dpi_scale_y ]

\* Mutant of physical_bounds: dpi_scale_x is used on both axes.
PhysicalBoundsOneScale(area) ==
  RectFromMinSize(
    Pos2(area.bounds.min.x * area.dpi_scale_x, area.bounds.min.y * area.dpi_scale_x),
    Vec2(RectWidth(area.bounds) * area.dpi_scale_x,
         RectHeight(area.bounds) * area.dpi_scale_x))

\* CaptureArea::physical_bounds; the result holds numerators over DpiDen.
PhysicalBounds(area) ==
  RectFromMinSize(
    Pos2(area.bounds.min.x * area.dpi_scale_x, area.bounds.min.y * area.dpi_scale_y),
    Vec2(RectWidth(area.bounds) * area.dpi_scale_x,
         RectHeight(area.bounds) * area.dpi_scale_y))

\* Mutant of the normalization: the two points are taken as min and max in
\* the order given.
NormalizedBoundsUnordered(start, end) == RectFromMinMax(start, end)

\* The rectangle create_capture_area normalizes its two points into.
NormalizedBounds(start, end) ==
  RectFromMinMax(Pos2(Min2(start.x, end.x), Min2(start.y, end.y)),
                 Pos2(Max2(start.x, end.x), Max2(start.y, end.y)))

\* Mutant of create_capture_area: only the min corner is made relative to the
\* screen.
CreateCaptureAreaMinOnly(start, end) ==
  LET bounds == NormalizedBounds(start, end)
      found == FindScreenAtPoint2(RectCenter2(bounds))
  IN  IF ~found.some THEN Err(SelectionNotOnScreen)
      ELSE LET screen_info == found.val
               relative_bounds ==
                 RectFromMinMax(
                   Pos2(bounds.min.x - screen_info.bounds.min.x,
                        bounds.min.y - screen_info.bounds.min.y),
                   bounds.max)
           IN  Ok(CaptureAreaWithDpiScaling(relative_bounds, screen_info.index,
                                            screen_info.dpi_scale_x,
                                            screen_info.dpi_scale_y))

\* create_capture_area
CreateCaptureArea(start, end) ==
  LET bounds == NormalizedBounds(start, end)
      found == FindScreenAtPoint2(RectCenter2(bounds))
  IN  IF ~found.some THEN Err(SelectionNotOnScreen)
      ELSE LET screen_info == found.val
               relative_bounds ==
                 RectFromMinMax(
                   Pos2(bounds.min.x - screen_info.bounds.min.x,
                        bounds.min.y - screen_info.bounds.min.y),
                   Pos2(bounds.max.x - screen_info.bounds.min.x,
                        bounds.max.y - screen_info.bounds.min.y))
           IN  Ok(CaptureAreaWithDpiScaling(relative_bounds, screen_info.index,
                                            screen_info.dpi_scale_x,
                                            screen_info.dpi_scale_y))

\* ---------------------------------------------------------------- executor
\* The decoded full image of a screen: the screen's whole pixel grid.
FullImage(screen_index) ==
  [ screen |-> screen_index, x |-> 0, y |-> 0,
    width |-> screens[screen_index + 1].width,
    height |-> screens[screen_index + 1].height ]

\* Mutant of capture_screen_by_index: a decode failure is reported with the
\* error of a refused capture.
CaptureScreenByIndexOneFailure(screen_index, outcome) ==
  IF screen_index \notin 0..(Len(screens) - 1)
  THEN [res |-> Err(ScreenNotFound(screen_index)), captures |-> 0]
  ELSE IF outcome \in {"refused", "undecodable"}
  THEN [res |-> Err(CaptureFailed(screen_index)), captures |-> 1]
  ELSE [res |-> Ok(FullImage(screen_index)), captures |-> 1]

\* Mutant of capture_screen_by_index: a refused capture is attempted a second
\* time before the error is returned.
CaptureScreenByIndexRetries(screen_index, outcome) ==
  IF screen_index \notin 0..(Len(screens) - 1)
  THEN [res |-> Err(ScreenNotFound(screen_index)), captures |-> 0]
  ELSE IF outcome = "refused"
  THEN [res |-> Err(CaptureFailed(screen_index)), captures |-> 2]
  ELSE IF outcome = "undecodable"
  THEN [res |-> Err(DecodeFailed), captures |-> 1]
  ELSE [res |-> Ok(FullImage(screen_index)), captures |-> 1]

\* Mutant of capture_screen_by_index: an index past the screen list wraps
\* around to a screen of the list.
CaptureScreenByIndexWraps(screen_index, outcome) ==
  LET wrapped == IF Len(screens) = 0 THEN screen_index
                 ELSE screen_index % Len(screens)
  IN  IF wrapped \notin 0..(Len(screens) - 1)
      THEN [res |-> Err(ScreenNotFound(screen_index)), captures |-> 0]
      ELSE IF outcome = "refused"
      THEN [res |-> Err(CaptureFailed(wrapped)), captures |-> 1]
      ELSE IF outcome = "undecodable"
      THEN [res |-> Err(DecodeFailed), captures |-> 1]
      ELSE [res |-> Ok(FullImage(wrapped)), captures |-> 1]

\* capture_screen_by_index, for a given outcome of the platform primitive and
\* the decoder; captures counts the calls of the platform primitive.
CaptureScreenByIndex(screen_index, outcome) ==
  IF screen_index \notin 0..(Len(screens) - 1)
  THEN [res |-> Err(ScreenNotFound(screen_index)), captures |-> 0]
  ELSE IF outcome = "refused"
  THEN [res |-> Err(CaptureFailed(screen_index)), captures |-> 1]
  ELSE IF outcome = "undecodable"
  THEN [res |-> Err(DecodeFailed), captures |-> 1]
  ELSE [res |-> Ok(FullImage(screen_index)), captures |-> 1]

\* Mutant of capture_primary_screen: without a primary screen the screen at
\* index 0 is captured.
CapturePrimaryScreenFallsBack(outcome) ==
  LET primary == GetPrimaryScreen
  IN  IF ~primary.ok THEN CaptureScreenByIndex(0, outcome)
      ELSE CaptureScreenByIndex(primary.val.index, outcome)

\* capture_primary_screen
CapturePrimaryScreen(outcome) ==
  LET primary == GetPrimaryScreen
  IN  IF ~primary.ok THEN [res |-> primary, captures |-> 0]
      ELSE CaptureScreenByIndex(primary.val.index, outcome)

\* `v as u32` for a value v >= -1 held as a numerator over DpiDen: truncation
\* toward zero, negative values saturate at 0.
AsU32(numerator) == IF numerator <= 0 THEN 0 ELSE numerator \div DpiDen

\* DynamicImage::crop_imm: the requested rectangle clipped to the image.
CropImm(image, x, y, width, height) ==
  LET cx == Min2(x, image.width)
      cy == Min2(y, image.height)
  IN  [ screen |-> image.screen, x |-> image.x + cx, y |-> image.y + cy,
        width |-> Min2(width, image.width - cx),
        height |-> Min2(height, image.height - cy) ]

\* The bounds validation of capture_area: TRUE when the area is rejected.
\* Both sides of the max comparisons are numerators over DpiDen.
ExtendsBeyondScreen(physical_bounds, screen_info) ==
  \/ physical_bounds.min.x < 0
  \/ physical_bounds.min.y < 0
  \/ physical_bounds.max.x > screen_info.bounds.max.x * screen_info.dpi_scale_x
  \/ physical_bounds.max.y > screen_info.bounds.max.y * screen_info.dpi_scale_y

\* Mutant of capture_area: the rectangle is validated before the screen is
\* captured.
CaptureAreaOpValidatesFirst(area, outcome) ==
  LET physical_bounds == PhysicalBounds(area)
      screen_info == GetScreenInfo(area.screen_index)
      full == CaptureScreenByIndex(area.screen_index, outcome)
  IN  IF ~screen_info.ok
      THEN [res |-> screen_info, captures |-> 0, cropped |-> FALSE]
      ELSE IF ExtendsBeyondScreen(physical_bounds, screen_info.val)
      THEN [res |-> Err(AreaOutOfBounds), captures |-> 0, cropped |-> FALSE]
      ELSE IF ~full.res.ok
      THEN [res |-> full.res, captures |-> full.captures, cropped |-> FALSE]
      ELSE [ res |-> Ok(CropImm(full.res.val,
                                AsU32(physical_bounds.min.x),
                                AsU32(physical_bounds.min.y),
                                AsU32(RectWidth(physical_bounds)),
                                AsU32(RectHeight(physical_bounds)))),
             captures |-> full.captures, cropped |-> TRUE ]

\* Mutant of capture_area: the limit of the screen is scaled with the DPI
\* factors of the area.
CaptureAreaOpAreaDpi(area, outcome) ==
  LET full == CaptureScreenByIndex(area.screen_index, outcome)
      physical_bounds == PhysicalBounds(area)
      screen_info == GetScreenInfo(area.screen_index)
  IN  IF ~full.res.ok
      THEN [res |-> full.res, captures |-> full.captures, cropped |-> FALSE]
      ELSE IF ~screen_info.ok
      THEN [res |-> screen_info, captures |-> full.captures, cropped |-> FALSE]
      ELSE IF ExtendsBeyondScreen(physical_bounds,
                [screen_info.val EXCEPT !.dpi_scale_x = area.dpi_scale_x,
                                        !.dpi_scale_y = area.dpi_scale_y])
      THEN [res |-> Err(AreaOutOfBounds), captures |-> full.captures, cropped |-> FALSE]
      ELSE [ res |-> Ok(CropImm(full.res.val,
                                AsU32(physical_bounds.min.x),
                                AsU32(physical_bounds.min.y),
                                AsU32(RectWidth(physical_bounds)),
                                AsU32(RectHeight(physical_bounds)))),
             captures |-> full.captures, cropped |-> TRUE ]

\* capture_area
CaptureAreaOp(area, outcome) ==
  LET full == CaptureScreenByIndex(area.screen_index, outcome)
      physical_bounds == PhysicalBounds(area)
      screen_info == GetScreenInfo(area.screen_index)
  IN  IF ~full.res.ok
      THEN [res |-> full.res, captures |-> full.captures, cropped |-> FALSE]
      ELSE IF ~screen_info.ok
      THEN [res |-> screen_info, captures |-> full.captures, cropped |-> FALSE]
      ELSE IF ExtendsBeyondScreen(physical_bounds, screen_info.val)
      THEN [res |-> Err(AreaOutOfBounds), captures |-> full.captures, cropped |-> FALSE]
      ELSE [ res |-> Ok(CropImm(full.res.val,
                                AsU32(physical_bounds.min.x),
                                AsU32(physical_bounds.min.y),
                                AsU32(RectWidth(physical_bounds)),
                                AsU32(RectHeight(physical_bounds)))),
             captures |-> full.captures, cropped |-> TRUE ]

\* ------------------------------------------------------------------ inputs
\* Points handed to find_screen_at_point: inside, outside and on the min and
\* max edges of the screens of DisplayPool.
FindPoints == { Pos2(px, py) : px \in {-1, 0, 3, 4, 5, 7}, py \in {1, 2, 3} }

\* End points of a drag handed to create_capture_area.
DragPoints == { Pos2(px, py) : px \in {-1, 0, 3, 5, 7}, py \in {1, 3} }

\* DPI scale pairs of hand-built areas: 1.0, 1 + 1/DpiDen and 2.0.
AreaScales == { <<DpiDen, DpiDen>>, <<DpiDen + 1, DpiDen>>, <<DpiDen, 2 * DpiDen>> }

\* Screen indices handed to the service, one of them past every registry.
ScreenIndices == 0..MaxScreens

\* Areas handed to capture_area, built with CaptureArea::with_dpi_scaling.
AreaInputs ==
  { CaptureAreaWithDpiScaling(RectFromMinSize(Pos2(ax, ay), Vec2(aw, ah)),
                              i, sc[1], sc[2]) :
      ax \in {-1, 0, 1}, ay \in {-1, 0}, aw \in {1, 3, 5}, ah \in {1, 3},
      i \in ScreenIndices, sc \in AreaScales }

\* The area of the unit tests of physical_bounds: min (10,20), size (100,50),
\* scale (2.0, 1.5).  The scale 1.5 is a numerator over DpiDen only when
\* DpiDen is even.
ExampleAreas ==
  IF DpiDen % 2 = 0
  THEN { CaptureAreaWithDpiScaling(RectFromMinSize(Pos2(10, 20), Vec2(100, 50)),
                                   0, 2 * DpiDen, (3 * DpiDen) \div 2) }
  ELSE {}

\* Areas whose physical_bounds is taken.
PhysicalInputs == AreaInputs \cup ExampleAreas

\* ------------------------------------------------------------------ editor
\* Tool::default() and the other tools.
Tools == {"Select", "Rectangle", "Text"}

\* impl Default for EditorApp.  zoom_level is held in hundredths and
\* pan_offset in whole pixels; products and quotients of zoom levels are
\* truncated to hundredths, f32 and f64 rounding is outside the model.
EditorDefault ==
  [ source_image |-> None,
    texture |-> None,
    annotations |-> << >>,
    current_tool |-> "Select",
    zoom_level |-> ZoomOne,
    pan_offset |-> Vec2(0, 0),
    should_close |-> FALSE,
    is_panning |-> FALSE,
    last_mouse_pos |-> None ]

\* A DynamicImage, known by its size.
Image(w, h) == [width |-> w, height |-> h]

Clamp(v, lo, hi) == Max2(lo, Min2(v, hi))

\* Mutant of load_image: the pan offset of the previous image is kept.
LoadImageKeepsPan(e, image) ==
  [ e EXCEPT !.source_image = Some(image),
             !.zoom_level = ZoomOne,
             !.texture = None ]

\* EditorApp::load_image: the state after the call, which returns Ok(()).
LoadImage(e, image) ==
  [ e EXCEPT !.source_image = Some(image),
             !.zoom_level = ZoomOne,
             !.pan_offset = Vec2(0, 0),
             !.texture = None ]

\* EditorApp::load_test_image
LoadTestImage(e) == LoadImage(e, Image(TestImageWidth, TestImageHeight))

\* EditorApp::set_tool
SetTool(e, tool) == [e EXCEPT !.current_tool = tool]

\* EditorApp::request_close
RequestClose(e) == [e EXCEPT !.should_close = TRUE]

\* ensure_texture: the texture is created from the image when there is none.
EnsureTexture(e) ==
  IF ~e.texture.some /\ e.source_image.some
  THEN [e EXCEPT !.texture = Some(e.source_image.val)]
  ELSE e

\* draw_menu_bar for the menu entry clicked in the frame; only Exit has an
\* effect.
DrawMenuBar(e, event) ==
  IF event.kind = "exit" THEN RequestClose(e) ELSE e

\* draw_tool_panel for the widget used in the frame.
DrawToolPanel(e, event) ==
  IF event.kind = "tool" THEN [e EXCEPT !.current_tool = event.tool]
  ELSE IF event.kind = "zoom_in"
  THEN [e EXCEPT !.zoom_level = Min2((e.zoom_level * 12) \div 10, MaxZoom)]
  ELSE IF event.kind = "zoom_out"
  THEN [e EXCEPT !.zoom_level = Max2((e.zoom_level * 10) \div 12, MinZoom)]
  ELSE IF event.kind = "slider"
  THEN [e EXCEPT !.zoom_level = event.zoom]
  ELSE IF event.kind = "actual_size"
  THEN [e EXCEPT !.zoom_level = ZoomOne]
  ELSE IF event.kind = "fit"
  THEN IF e.texture.some
       THEN [ e EXCEPT
                !.zoom_level = Min2(Min2((CanvasWidth * ZoomOne) \div e.texture.val.width,
                                         (CanvasHeight * ZoomOne) \div e.texture.val.height),
                                    ZoomOne),
                !.pan_offset = Vec2(0, 0) ]
       ELSE e
  ELSE IF event.kind = "reset_view"
  THEN [e EXCEPT !.zoom_level = ZoomOne, !.pan_offset = Vec2(0, 0)]
  ELSE IF event.kind = "load_test_image"
  THEN LoadTestImage(e)
  ELSE e

\* constrain_pan_offset for an available rectangle of the canvas size.
ConstrainPanOffset(e, pan_offset) ==
  IF e.texture.some
  THEN LET display_x == (e.texture.val.width * e.zoom_level) \div ZoomOne
           display_y == (e.texture.val.height * e.zoom_level) \div ZoomOne
           max_pan_x == Max2(CanvasWidth - MinVisibleSize, 0)
           min_pan_x == -Max2(display_x - MinVisibleSize, 0)
           max_pan_y == Max2(CanvasHeight - MinVisibleSize, 0)
           min_pan_y == -Max2(display_y - MinVisibleSize, 0)
       IN  Vec2(Clamp(pan_offset.x, min_pan_x, max_pan_x),
                Clamp(pan_offset.y, min_pan_y, max_pan_y))
  ELSE pan_offset

\* handle_mouse_interactions for the pointer input of the frame.  A scroll
\* event holds scroll_delta.y and the hover position relative to the center
\* of the canvas (None when the pointer has left it).
HandleMouseInteractions(e, event) ==
  IF event.kind = "scroll"
  THEN LET old_zoom == e.zoom_level
           new_zoom == Clamp((old_zoom * (1000 + event.delta)) \div 1000,
                             MinZoom, MaxZoom)
           zoom_change == (new_zoom * ZoomOne) \div old_zoom - ZoomOne
       IN  IF event.hover.some
           THEN [ e EXCEPT
                    !.zoom_level = new_zoom,
                    !.pan_offset =
                       Vec2(e.pan_offset.x - (event.hover.val.x * zoom_change) \div ZoomOne,
                            e.pan_offset.y - (event.hover.val.y * zoom_change) \div ZoomOne) ]
           ELSE [e EXCEPT !.zoom_level = new_zoom]
  ELSE IF event.kind = "drag"
  THEN [ e EXCEPT !.pan_offset =
           ConstrainPanOffset(e, Vec2(e.pan_offset.x + event.delta.x,
                                      e.pan_offset.y + event.delta.y)) ]
  ELSE IF event.kind = "double_click"
  THEN [e EXCEPT !.zoom_level = ZoomOne, !.pan_offset = Vec2(0, 0)]
  ELSE e

\* draw_canvas: the texture is ensured, and the pointer input is handled when
\* there is an image to draw.
DrawCanvas(e, event) ==
  LET ensured == EnsureTexture(e)
  IN  IF ensured.texture.some THEN HandleMouseInteractions(ensured, event)
      ELSE ensured

\* eframe::App::update for the input of one frame.
Update(e, event) ==
  IF e.should_close THEN e
  ELSE DrawCanvas(DrawToolPanel(DrawMenuBar(e, event), event), event)

\* The input of one frame: the pointer is on one widget, or on the canvas,
\* or nothing happens.
Event(kind) == [kind |-> kind]
FrameEvents ==
  { Event("none"), Event("exit"), Event("menu_other"), Event("zoom_in"),
    Event("zoom_out"), Event("actual_size"), Event("fit"), Event("reset_view"),
    Event("load_test_image"), Event("double_click") }
  \cup { [kind |-> "tool", tool |-> t] : t \in Tools }
  \cup { [kind |-> "slider", zoom |-> z] : z \in {MinZoom, 250} }
  \cup { [kind |-> "scroll", delta |-> d, hover |-> h] :
           d \in {-500, 500}, h \in {None, Some(Pos2(100, -50))} }
  \cup { [kind |-> "drag", delta |-> Vec2(dx, dy)] :
           dx \in {-300, 900}, dy \in {0, 200} }

\* Images handed to load_image.
LoadedImages == { Image(100, 100), Image(1920, 1080) }

\* ----------------------------------------------------------------- actions
\* Every operation is a synchronous call on one thread: a call is made only
\* when the previous one has returned and its result has been taken.
NoCall == Call("none", Unit, Ok(Unit))

\* Mutant of the exclusive borrow: the methods of the service can also be
\* called while refresh_screen_info is between two statements.
IdleOrRefreshing == last.op \in {"none", "refresh_screen_info"}

Idle == last.op = "none"

\* The state of the editor window, which no operation of the capture service
\* touches.
EditorVars == <<editor, frame>>

Init ==
  /\ displays \in DisplayConfigs
  /\ constructed = FALSE
  /\ screens = << >>
  /\ screen_cache = EmptyCache
  /\ iter_order = << >>
  /\ last = NoCall
  /\ editor = EditorDefault
  /\ frame = 0

\* The display configuration changes (a monitor is plugged, unplugged, moved).
Reconfigure ==
  /\ Idle
  /\ \E d \in DisplayConfigs : d # displays /\ displays' = d
  /\ UNCHANGED <<constructed, screens, screen_cache, iter_order, last>>
  /\ UNCHANGED EditorVars

\* Mutant of refresh_screen_info: the enumeration is kept in a local and the
\* screen list of the service is not replaced.
RefreshFieldsKeepsScreens(enumerated, order) ==
  /\ UNCHANGED screens
  /\ screen_cache' = RebuiltCache(enumerated)
  /\ iter_order' = order

\* The effect of refresh_screen_info on the service's fields, for the
\* enumeration Screen::all() returns and the order the rebuilt map iterates in.
RefreshFields(enumerated, order) ==
  /\ screens' = enumerated
  /\ screen_cache' = RebuiltCache(enumerated)
  /\ iter_order' = order

\* CaptureService::new: two enumerations, the second inside
\* refresh_screen_info; the configuration may change between them.
New ==
  /\ Idle
  /\ ~constructed
  /\ IF displays = << >>
     THEN /\ last' = Call("new", Unit, Err(NoDisplays))
          /\ UNCHANGED <<displays, constructed, screens, screen_cache, iter_order>>
     ELSE \E second \in DisplayConfigs : \E order \in Orders(Len(second)) :
            /\ displays' = second
            /\ constructed' = TRUE
            /\ RefreshFields(second, order)
            /\ last' = Call("new", Unit, Ok(Unit))
  /\ UNCHANGED EditorVars

\* Mutant of CaptureService::default: the result of new() is unwrapped, no
\* service exists when new() fails.
DefaultUnwraps ==
  /\ Idle
  /\ ~constructed
  /\ IF displays = << >>
     THEN /\ last' = Call("default", Unit, Err(NoDisplays))
          /\ UNCHANGED <<displays, constructed, screens, screen_cache, iter_order>>
     ELSE \E second \in DisplayConfigs : \E order \in Orders(Len(second)) :
            /\ displays' = second
            /\ constructed' = TRUE
            /\ RefreshFields(second, order)
            /\ last' = Call("default", Unit, Ok(Unit))
  /\ UNCHANGED EditorVars

\* CaptureService::default: new(), or the empty service when new() fails.
Default ==
  /\ Idle
  /\ ~constructed
  /\ constructed' = TRUE
  /\ IF displays = << >>
     THEN /\ screens' = << >>
          /\ screen_cache' = EmptyCache
          /\ iter_order' = << >>
          /\ UNCHANGED displays
     ELSE \E second \in DisplayConfigs : \E order \in Orders(Len(second)) :
            /\ displays' = second
            /\ RefreshFields(second, order)
  /\ last' = Call("default", Unit, Ok(Unit))
  /\ UNCHANGED EditorVars

\* refresh_screen_info; the call record keeps what the service held before
\* the call: its screen list and the set of its ScreenInfo entries.
RefreshScreenInfo ==
  /\ Idle
  /\ constructed
  /\ \E order \in Orders(Len(displays)) : RefreshFields(displays, order)
  /\ last' = Call("refresh_screen_info",
                  [ prev_screens |-> screens,
                    prev_infos |-> { screen_cache[i] : i \in DOMAIN screen_cache } ],
                  Ok(Unit))
  /\ UNCHANGED <<displays, constructed>>
  /\ UNCHANGED EditorVars

Service == <<displays, constructed, screens, screen_cache, iter_order>>

\* refresh_screen_info statement by statement.  The method borrows the
\* service mutably (&mut self), so no other method of the service runs
\* between its statements: they are enabled only when no call is in
\* progress (Idle).  outcome holds the statement reached.
Refreshing(reached) == last.op = "refresh_screen_info" /\ last.outcome = reached

\* self.screen_cache.clear()
RefreshClear ==
  /\ Idle
  /\ constructed
  /\ screen_cache' = EmptyCache
  /\ iter_order' = << >>
  /\ last' = [ Call("refresh_screen_info",
                     [ prev_screens |-> screens,
                       prev_infos |-> { screen_cache[i] : i \in DOMAIN screen_cache } ],
                     Ok(Unit))
               EXCEPT !.outcome = "cleared" ]
  /\ UNCHANGED <<displays, constructed, screens>>
  /\ UNCHANGED EditorVars

\* self.screens = Screen::all()
RefreshEnumerate ==
  /\ Refreshing("cleared")
  /\ screens' = displays
  /\ last' = [last EXCEPT !.outcome = "enumerated"]
  /\ UNCHANGED <<displays, constructed, screen_cache, iter_order>>
  /\ UNCHANGED EditorVars

\* One iteration of the loop: the entry of the next screen is inserted.
RefreshInsert ==
  /\ Refreshing("enumerated")
  /\ Cardinality(DOMAIN screen_cache) < Len(screens)
  /\ LET index == Cardinality(DOMAIN screen_cache)
     IN  /\ screen_cache' =
              [ i \in (DOMAIN screen_cache) \cup {index} |->
                  IF i = index THEN ScreenInfoOf(index, screens[index + 1])
                  ELSE screen_cache[i] ]
         /\ \E order \in Orders(index + 1) : iter_order' = order
  /\ UNCHANGED <<displays, constructed, screens, last>>
  /\ UNCHANGED EditorVars

\* Ok(()) after the loop.
RefreshFinish ==
  /\ Refreshing("enumerated")
  /\ Cardinality(DOMAIN screen_cache) = Len(screens)
  /\ last' = [last EXCEPT !.outcome = "none"]
  /\ UNCHANGED Service
  /\ UNCHANGED EditorVars

\* Mutant of get_screens: the entries are drained from the map instead of
\* cloned.
GetScreensCallDrains ==
  /\ Idle
  /\ constructed
  /\ last' = Call("get_screens", Unit, Ok(CacheValues))
  /\ screen_cache' = EmptyCache
  /\ iter_order' = << >>
  /\ UNCHANGED <<displays, constructed, screens>>
  /\ UNCHANGED EditorVars

GetScreensCall ==
  /\ Idle
  /\ constructed
  /\ last' = Call("get_screens", Unit, Ok(CacheValues))
  /\ UNCHANGED Service
  /\ UNCHANGED EditorVars

GetScreenInfoCall ==
  /\ Idle
  /\ constructed
  /\ \E i \in ScreenIndices : last' = Call("get_screen_info", i, GetScreenInfo(i))
  /\ UNCHANGED Service
  /\ UNCHANGED EditorVars

GetPrimaryScreenCall ==
  /\ Idle
  /\ constructed
  /\ last' = Call("get_primary_screen", Unit, GetPrimaryScreen)
  /\ UNCHANGED Service
  /\ UNCHANGED EditorVars

GetDesktopBoundsCall ==
  /\ Idle
  /\ constructed
  /\ last' = Call("get_desktop_bounds", Unit, Ok(GetDesktopBounds))
  /\ UNCHANGED Service
  /\ UNCHANGED EditorVars

FindScreenAtPointCall ==
  /\ Idle
  /\ constructed
  /\ \E p \in FindPoints :
       last' = Call("find_screen_at_point", p, Ok(FindScreenAtPoint(p)))
  /\ UNCHANGED Service
  /\ UNCHANGED EditorVars

CreateCaptureAreaCall ==
  /\ Idle
  /\ constructed
  /\ \E start \in DragPoints, end \in DragPoints :
       last' = Call("create_capture_area", [start |-> start, end |-> end],
                    CreateCaptureArea(start, end))
  /\ UNCHANGED Service
  /\ UNCHANGED EditorVars

CaptureScreenByIndexCall ==
  /\ Idle
  /\ constructed
  /\ \E i \in ScreenIndices, outcome \in CaptureOutcomes :
       LET r == CaptureScreenByIndex(i, outcome)
       IN  last' = [ op |-> "capture_screen_by_index", arg |-> i, res |-> r.res,
                     outcome |-> outcome, captures |-> r.captures, cropped |-> FALSE ]
  /\ UNCHANGED Service
  /\ UNCHANGED EditorVars

CapturePrimaryScreenCall ==
  /\ Idle
  /\ constructed
  /\ \E outcome \in CaptureOutcomes :
       LET r == CapturePrimaryScreen(outcome)
       IN  last' = [ op |-> "capture_primary_screen", arg |-> Unit, res |-> r.res,
                     outcome |-> outcome, captures |-> r.captures, cropped |-> FALSE ]
  /\ UNCHANGED Service
  /\ UNCHANGED EditorVars

CaptureAreaCall ==
  /\ Idle
  /\ constructed
  /\ \E area \in AreaInputs, outcome \in CaptureOutcomes :
       LET r == CaptureAreaOp(area, outcome)
       IN  last' = [ op |-> "capture_area", arg |-> area, res |-> r.res,
                     outcome |-> outcome, captures |-> r.captures, cropped |-> r.cropped ]
  /\ UNCHANGED Service
  /\ UNCHANGED EditorVars

\* CaptureArea::physical_bounds, a method of the area alone.
PhysicalBoundsCall ==
  /\ Idle
  /\ \E area \in PhysicalInputs :
       last' = Call("physical_bounds", area, Ok(PhysicalBounds(area)))
  /\ UNCHANGED Service
  /\ UNCHANGED EditorVars

\* The editor window: calls of its public methods and frames.
EditorFrame == <<displays, constructed, screens, screen_cache, iter_order, frame>>

LoadImageCall ==
  /\ Idle
  /\ \E image \in LoadedImages :
       /\ editor' = LoadImage(editor, image)
       /\ last' = Call("load_image", [image |-> image, before |-> editor], Ok(Unit))
  /\ UNCHANGED EditorFrame

LoadTestImageCall ==
  /\ Idle
  /\ editor' = LoadTestImage(editor)
  /\ last' = Call("load_test_image", [before |-> editor], Ok(Unit))
  /\ UNCHANGED EditorFrame

SetToolCall ==
  /\ Idle
  /\ \E tool \in Tools :
       /\ editor' = SetTool(editor, tool)
       /\ last' = Call("set_tool", tool, Ok(Unit))
  /\ UNCHANGED EditorFrame

RequestCloseCall ==
  /\ Idle
  /\ editor' = RequestClose(editor)
  /\ last' = Call("request_close", Unit, Ok(Unit))
  /\ UNCHANGED EditorFrame

UpdateCall ==
  /\ Idle
  /\ frame < MaxFrames
  /\ \E event \in FrameEvents :
       /\ editor' = Update(editor, event)
       /\ last' = Call("update", event, Ok(Unit))
  /\ frame' = frame + 1
  /\ UNCHANGED Service

\* The caller takes the result of the call that returned.
Return ==
  /\ ~Idle
  /\ ~Refreshing("cleared")
  /\ ~Refreshing("enumerated")
  /\ last' = NoCall
  /\ UNCHANGED Service
  /\ UNCHANGED EditorVars

Next ==
  \/ Return
  \/ Reconfigure
  \/ New
  \/ Default
  \/ RefreshScreenInfo
  \/ GetScreensCall
  \/ GetScreenInfoCall
  \/ GetPrimaryScreenCall
  \/ GetDesktopBoundsCall
  \/ FindScreenAtPointCall
  \/ CreateCaptureAreaCall
  \/ CaptureScreenByIndexCall
  \/ CapturePrimaryScreenCall
  \/ CaptureAreaCall
  \/ PhysicalBoundsCall

Spec == Init /\ [][Next]_vars

\* The service with refresh_screen_info taken statement by statement.
RefreshNext ==
  \/ Return
  \/ Reconfigure
  \/ New
  \/ Default
  \/ RefreshClear
  \/ RefreshEnumerate
  \/ RefreshInsert
  \/ RefreshFinish
  \/ GetScreensCall
  \/ GetScreenInfoCall
  \/ GetPrimaryScreenCall
  \/ GetDesktopBoundsCall
  \/ FindScreenAtPointCall
  \/ CreateCaptureAreaCall
  \/ CaptureScreenByIndexCall
  \/ CapturePrimaryScreenCall
  \/ CaptureAreaCall

RefreshSpec == Init /\ [][RefreshNext]_vars

\* The editor window on its own, before a capture service exists.
EditorInit ==
  /\ displays = << >>
  /\ constructed = FALSE
  /\ screens = << >>
  /\ screen_cache = EmptyCache
  /\ iter_order = << >>
  /\ last = NoCall
  /\ editor = EditorDefault
  /\ frame = 0

EditorNext ==
  \/ Return
  \/ LoadImageCall
  \/ LoadTestImageCall
  \/ SetToolCall
  \/ RequestCloseCall
  \/ UpdateCall

EditorSpec == EditorInit /\ [][EditorNext]_vars

\* ============================================================== properties
\* The last call was capture_area and its full-screen capture succeeded.
AreaCaptured ==
  /\ last.op = "capture_area"
  /\ last.arg.screen_index \in 0..(Len(screens) - 1)
  /\ last.arg.screen_index \in DOMAIN screen_cache
  /\ last.outcome = "image"

\* The physical rectangle of an area leaves the physical extent of its own
\* screen: (0, 0) .. (width * dpi_scale_x, height * dpi_scale_y).
LeavesOwnExtent(area) ==
  LET physical == PhysicalBounds(area)
      screen == screens[area.screen_index + 1]
      info == screen_cache[area.screen_index]
  IN  \/ physical.min.x < 0
      \/ physical.min.y < 0
      \/ physical.max.x > screen.width * info.dpi_scale_x
      \/ physical.max.y > screen.height * info.dpi_scale_y

\* Two errors are the same error value.
SameError(a, b) == a.variant = b.variant /\ a.msg = b.msg /\ a.index = b.index

\* Two images show the same region of the same screen.
SameImage(a, b) ==
  /\ a.screen = b.screen /\ a.x = b.x /\ a.y = b.y
  /\ a.width = b.width /\ a.height = b.height

Failed(e) == ~last.res.ok /\ SameError(last.res.err, e)

\* C1: an area whose physical bounds leave the target screen's own physical
\* extent, or have a negative min coordinate, makes capture_area fail with
\* AreaOutOfBounds without executing the crop, on every screen of the
\* registry whatever its position in desktop space.
C1_BeyondExtentRejected ==
  (AreaCaptured /\ LeavesOwnExtent(last.arg))
    => (Failed(AreaOutOfBounds) /\ ~last.cropped)

\* C2: capture_area does not reject with AreaOutOfBounds an area whose
\* physical rectangle lies within the target screen's own physical extent,
\* on every registered screen, when the full-screen capture succeeds.
C2_WithinExtentAccepted ==
  (AreaCaptured /\ ~LeavesOwnExtent(last.arg)) => ~Failed(AreaOutOfBounds)

\* The integer-truncated physical rectangle of an area, as an image region.
TruncatedRegion(area) ==
  LET physical == PhysicalBounds(area)
  IN  [ screen |-> area.screen_index,
        x |-> physical.min.x \div DpiDen,
        y |-> physical.min.y \div DpiDen,
        width |-> RectWidth(physical) \div DpiDen,
        height |-> RectHeight(physical) \div DpiDen ]

\* C3: whenever capture_area succeeds the returned image is exactly the
\* integer-truncated physical rectangle, never a clipped, smaller image.
C3_ImageIsTruncatedRectangle ==
  (last.op = "capture_area" /\ last.res.ok)
    => SameImage(last.res.val, TruncatedRegion(last.arg))

\* The logical bounds of the registered screens.
RegisteredBounds == { screen_cache[i].bounds : i \in DOMAIN screen_cache }

DesktopBoundsReturned == last.op = "get_desktop_bounds"

\* C4: for a non-empty registry desktop_bounds() is the minimal axis-aligned
\* rectangle covering all screens: its min corner is the component-wise
\* minimum of the screens' bounds.min, its max corner the component-wise
\* maximum of their bounds.max, and every screen's bounds lies inside it.
C4_DesktopBoundsIsMinimalCover ==
  (DesktopBoundsReturned /\ RegisteredBounds # {}) =>
    LET r == last.res.val.rect
    IN  /\ \A b \in RegisteredBounds :
             /\ r.min.x <= b.min.x /\ r.min.y <= b.min.y
             /\ b.max.x <= r.max.x /\ b.max.y <= r.max.y
        /\ \E b \in RegisteredBounds : r.min.x = b.min.x
        /\ \E b \in RegisteredBounds : r.min.y = b.min.y
        /\ \E b \in RegisteredBounds : r.max.x = b.max.x
        /\ \E b \in RegisteredBounds : r.max.y = b.max.y

\* desktop_bounds() was called on two screens neither of which alone is the
\* desktop rectangle.
C4_Witness ==
  /\ DesktopBoundsReturned
  /\ Cardinality(RegisteredBounds) = 2
  /\ \A b \in RegisteredBounds :
       \/ last.res.val.rect.min.x < b.min.x \/ last.res.val.rect.min.y < b.min.y
       \/ b.max.x < last.res.val.rect.max.x \/ b.max.y < last.res.val.rect.max.y

RectArea(r) == RectWidth(r) * RectHeight(r)

\* C5: for a non-empty registry the area of desktop_bounds() is at least the
\* area of the largest individual screen.
C5_DesktopAreaCoversLargestScreen ==
  (DesktopBoundsReturned /\ RegisteredBounds # {}) =>
    \A b \in RegisteredBounds : RectArea(last.res.val.rect) >= RectArea(b)

\* desktop_bounds() was called on screens of different areas.
C5_Witness ==
  /\ DesktopBoundsReturned
  /\ \E a, b \in RegisteredBounds : RectArea(a) < RectArea(b)

\* C6: desktop_bounds() on an empty registry returns exactly the rectangle
\* with origin (0,0) and size (1920,1080), and takes that fallback only when
\* the registry is empty.
C6_EmptyRegistryFallback ==
  DesktopBoundsReturned =>
    /\ (DOMAIN screen_cache = {}) <=> (last.res.val.path = "default")
    /\ (DOMAIN screen_cache = {}) =>
         /\ last.res.val.rect.min.x = 0 /\ last.res.val.rect.min.y = 0
         /\ RectWidth(last.res.val.rect) = 1920
         /\ RectHeight(last.res.val.rect) = 1080

\* desktop_bounds() was called on a service whose registry is empty.
C6_Witness ==
  /\ DesktopBoundsReturned
  /\ constructed
  /\ DOMAIN screen_cache = {}
  /\ last.res.val.path = "default"

\* Inclusive-exclusive containment of a point with integer coordinates.
HalfOpenContains(r, p) ==
  /\ r.min.x <= p.x /\ p.x < r.max.x
  /\ r.min.y <= p.y /\ p.y < r.max.y

\* Inclusive-exclusive containment of a point given as numerators over 2.
HalfOpenContains2(r, p2) ==
  /\ 2 * r.min.x <= p2.x /\ p2.x < 2 * r.max.x
  /\ 2 * r.min.y <= p2.y /\ p2.y < 2 * r.max.y

\* Two rectangles have no point in common, or only an edge.
DisjointBounds(a, b) ==
  \/ a.max.x <= b.min.x \/ b.max.x <= a.min.x
  \/ a.max.y <= b.min.y \/ b.max.y <= a.min.y

FindReturned == last.op = "find_screen_at_point"

\* The registered screens whose bounds hold p, inclusive-exclusive.
ScreensHolding(p) ==
  { i \in DOMAIN screen_cache : HalfOpenContains(screen_cache[i].bounds, p) }

\* C7: for two registered screens with disjoint logical bounds (screens that
\* share an edge included) find_screen_at(p) returns the unique screen
\* containing p, or none if p lies outside both, whatever the iteration
\* order of the map.
C7_FindsUniqueContainingScreen ==
  ( /\ FindReturned
    /\ DOMAIN screen_cache = {0, 1}
    /\ DisjointBounds(screen_cache[0].bounds, screen_cache[1].bounds) )
  => IF ScreensHolding(last.arg) = {}
     THEN ~last.res.val.some
     ELSE /\ last.res.val.some
          /\ ScreensHolding(last.arg) = {last.res.val.val.index}

\* C8: find_screen_at uses inclusive-exclusive containment: a point on a
\* screen's min edge is inside that screen, a point with x = bounds.max.x or
\* y = bounds.max.y is outside it.
C8_ContainmentIsInclusiveExclusive ==
  FindReturned =>
    \A i \in DOMAIN screen_cache :
      LET b == screen_cache[i].bounds
      IN  /\ (last.arg.x = b.max.x \/ last.arg.y = b.max.y)
               => ~(last.res.val.some /\ last.res.val.val.index = i)
          /\ ( /\ HalfOpenContains(b, last.arg)
               /\ (last.arg.x = b.min.x \/ last.arg.y = b.min.y) )
               => last.res.val.some

SameRect(a, b) ==
  /\ a.min.x = b.min.x /\ a.min.y = b.min.y
  /\ a.max.x = b.max.x /\ a.max.y = b.max.y

SameArea(a, b) ==
  /\ SameRect(a.bounds, b.bounds)
  /\ a.screen_index = b.screen_index
  /\ a.dpi_scale_x = b.dpi_scale_x
  /\ a.dpi_scale_y = b.dpi_scale_y

\* Two results of create_capture_area are the same outcome.
SameAreaResult(r, q) ==
  /\ r.ok = q.ok
  /\ r.ok => SameArea(r.val, q.val)
  /\ ~r.ok => SameError(r.err, q.err)

CreateReturned == last.op = "create_capture_area"

\* C9: create_capture_area is symmetric in its two points: the call with the
\* points exchanged gives the same outcome (same error, or the same bounds,
\* screen_index and DPI), and on success bounds.min <= bounds.max
\* component-wise.
C9_CreateIsSymmetric ==
  CreateReturned =>
    /\ SameAreaResult(last.res, CreateCaptureArea(last.arg.end, last.arg.start))
    /\ last.res.ok =>
         /\ last.res.val.bounds.min.x <= last.res.val.bounds.max.x
         /\ last.res.val.bounds.min.y <= last.res.val.bounds.max.y

\* A drag from bottom-right to top-left produced an area.
C9_Witness ==
  /\ CreateReturned
  /\ last.res.ok
  /\ last.arg.start.x > last.arg.end.x
  /\ last.arg.start.y > last.arg.end.y

\* C10: create_capture_area fails with SelectionNotOnScreen exactly when no
\* registered screen contains the center of the normalized rectangle.
C10_FailsIffCenterOffEveryScreen ==
  CreateReturned =>
    ( Failed(SelectionNotOnScreen)
      <=> \A b \in RegisteredBounds :
            ~HalfOpenContains2(b,
               RectCenter2(NormalizedBounds(last.arg.start, last.arg.end))) )

\* C11: on success create_capture_area returns an area whose screen_index is
\* the index of the screen found at the center of the normalized rectangle,
\* whose bounds are that rectangle with the screen's bounds.min subtracted
\* from both corners (size preserved), and whose dpi_scale_x and dpi_scale_y
\* are those of that screen.
C11_AreaIsRelativeToFoundScreen ==
  (CreateReturned /\ last.res.ok) =>
    LET lo == Pos2(Min2(last.arg.start.x, last.arg.end.x),
                   Min2(last.arg.start.y, last.arg.end.y))
        hi == Pos2(Max2(last.arg.start.x, last.arg.end.x),
                   Max2(last.arg.start.y, last.arg.end.y))
        found == FindScreenAtPoint2(Pos2(lo.x + hi.x, lo.y + hi.y))
        area == last.res.val
    IN  /\ found.some
        /\ area.screen_index = found.val.index
        /\ area.bounds.min.x = lo.x - found.val.bounds.min.x
        /\ area.bounds.min.y = lo.y - found.val.bounds.min.y
        /\ area.bounds.max.x = hi.x - found.val.bounds.min.x
        /\ area.bounds.max.y = hi.y - found.val.bounds.min.y
        /\ RectWidth(area.bounds) = hi.x - lo.x
        /\ RectHeight(area.bounds) = hi.y - lo.y
        /\ area.dpi_scale_x = found.val.dpi_scale_x
        /\ area.dpi_scale_y = found.val.dpi_scale_y

\* An area of positive width was created on a screen that is not at the
\* desktop origin.
C11_Witness ==
  /\ CreateReturned
  /\ last.res.ok
  /\ RectWidth(last.res.val.bounds) > 0
  /\ last.res.val.screen_index \in DOMAIN screen_cache
  /\ screen_cache[last.res.val.screen_index].bounds.min.x # 0

PhysicalReturned == last.op = "physical_bounds"

\* The area of the unit tests: min (10,20), size (100,50), scale (2.0, 1.5).
IsExampleArea(area) ==
  /\ area.bounds.min.x = 10 /\ area.bounds.min.y = 20
  /\ RectWidth(area.bounds) = 100 /\ RectHeight(area.bounds) = 50
  /\ area.dpi_scale_x = 2 * DpiDen
  /\ 2 * area.dpi_scale_y = 3 * DpiDen

\* C12: physical_bounds() scales the logical rectangle component-wise:
\* result.min = (bounds.min.x * dpi_scale_x, bounds.min.y * dpi_scale_y) and
\* result.size = (width * dpi_scale_x, height * dpi_scale_y) for every area;
\* min (10,20), size (100,50) with scale (2.0, 1.5) gives min (20,30), size
\* (200,75); with scale 1.0 on both axes the bounds are returned unchanged.
\* The result holds numerators over DpiDen.
C12_PhysicalBoundsScalesComponentwise ==
  PhysicalReturned =>
    LET area == last.arg
        r == last.res.val
    IN  /\ r.min.x = area.bounds.min.x * area.dpi_scale_x
        /\ r.min.y = area.bounds.min.y * area.dpi_scale_y
        /\ RectWidth(r) = RectWidth(area.bounds) * area.dpi_scale_x
        /\ RectHeight(r) = RectHeight(area.bounds) * area.dpi_scale_y
        /\ IsExampleArea(area) =>
             /\ r.min.x = 20 * DpiDen /\ r.min.y = 30 * DpiDen
             /\ RectWidth(r) = 200 * DpiDen /\ RectHeight(r) = 75 * DpiDen
        /\ (area.dpi_scale_x = DpiDen /\ area.dpi_scale_y = DpiDen) =>
             /\ r.min.x = DpiDen * area.bounds.min.x
             /\ r.min.y = DpiDen * area.bounds.min.y
             /\ r.max.x = DpiDen * area.bounds.max.x
             /\ r.max.y = DpiDen * area.bounds.max.y

\* physical_bounds() was taken of the area of the unit tests.
C12_Witness ==
  /\ PhysicalReturned
  /\ IsExampleArea(last.arg)
  /\ RectHeight(last.res.val) = 75 * DpiDen

RefreshReturned == last.op = "refresh_screen_info"

\* new() returned a service: its registry was built by refresh_screen_info.
NewReturnedService == last.op = "new" /\ last.res.ok

\* The ScreenInfo entries of the registry.
RegisteredInfos == { screen_cache[i] : i \in DOMAIN screen_cache }

PrimaryCount == Cardinality({ i \in DOMAIN screen_cache : screen_cache[i].is_primary })

\* C13: in every registry snapshot reached through construction and any
\* sequence of refreshes exactly one screen has is_primary = TRUE, so
\* get_primary_screen does not fail after a refresh.
C13_ExactlyOnePrimary ==
  (NewReturnedService \/ RefreshReturned) =>
    /\ PrimaryCount = 1
    /\ GetPrimaryScreen.ok

\* C14: refresh_screen_info fails with the NoDisplays error whenever the
\* re-enumeration yields zero screens, also on a constructed service after
\* all displays have disappeared.
C14_RefreshFailsWithoutDisplays ==
  (RefreshReturned /\ Len(displays) = 0) => Failed(NoDisplays)

\* C15: new() fails with the NoDisplays error when the enumeration yields
\* zero screens, and whenever it succeeds both the screen list and the
\* registry of the service are non-empty.
C15_NewNeedsDisplays ==
  (last.op = "new") =>
    /\ Len(displays) = 0 => Failed(NoDisplays)
    /\ ~last.res.ok => Failed(NoDisplays)
    /\ last.res.ok => (Len(screens) > 0 /\ DOMAIN screen_cache # {})

\* C16: after refresh_screen_info over an enumeration of n screens the
\* registry holds exactly n entries keyed 0..n-1; the entry at key i has
\* index = i, the position and size of the i-th enumerated screen,
\* is_primary = (i = 0) and dpi_scale_x = dpi_scale_y = 1.0.
C16_RegistryMirrorsEnumeration ==
  (NewReturnedService \/ RefreshReturned) =>
    /\ DOMAIN screen_cache = 0..(Len(displays) - 1)
    /\ \A i \in DOMAIN screen_cache :
         /\ screen_cache[i].index = i
         /\ screen_cache[i].bounds.min.x = displays[i + 1].x
         /\ screen_cache[i].bounds.min.y = displays[i + 1].y
         /\ RectWidth(screen_cache[i].bounds) = displays[i + 1].width
         /\ RectHeight(screen_cache[i].bounds) = displays[i + 1].height
         /\ screen_cache[i].is_primary = (i = 0)
         /\ screen_cache[i].dpi_scale_x = DpiDen
         /\ screen_cache[i].dpi_scale_y = DpiDen

\* A refresh enumerated two screens, the second away from the desktop origin.
C16_Witness ==
  /\ RefreshReturned
  /\ Len(displays) = 2
  /\ displays[2].x # 0
  /\ DOMAIN screen_cache = {0, 1}

\* The refresh that returned enumerated the screens the service already held.
SameEnumerationAgain == RefreshReturned /\ last.arg.prev_screens = screens

\* C17: refresh_screen_info is idempotent under a stable display
\* configuration: when the enumeration returns the same screens as the
\* refresh before, the registry holds the same set of ScreenInfo (indices,
\* bounds, DPI and primary flags) as before.
C17_RefreshIsIdempotent ==
  SameEnumerationAgain => RegisteredInfos = last.arg.prev_infos

\* A second refresh over the same two screens returned.
C17_Witness ==
  /\ SameEnumerationAgain
  /\ Len(screens) = 2
  /\ Cardinality(last.arg.prev_infos) = 2

\* C18: a refresh replaces the registry wholesale: after a refresh over n
\* screens get_screen_info(i) succeeds if and only if i < n, no index or
\* ScreenInfo of a prior, larger configuration survives, and get_screens()
\* returns exactly one entry per enumerated screen.
C18_RefreshReplacesRegistry ==
  /\ RefreshReturned =>
       /\ \A i \in ScreenIndices : GetScreenInfo(i).ok <=> i < Len(displays)
       /\ { e.index : e \in RegisteredInfos } = 0..(Len(displays) - 1)
       /\ Cardinality(RegisteredInfos) = Len(displays)
  /\ (last.op = "get_screen_info") => (last.res.ok <=> last.arg < Len(screens))
  /\ (last.op = "get_screens") =>
       /\ Len(last.res.val) = Len(screens)
       /\ { last.res.val[k].index : k \in 1..Len(last.res.val) } = 0..(Len(screens) - 1)

\* A refresh over one screen returned on a service that held two screens,
\* and the index 1 is no longer registered.
C18_Witness ==
  /\ RefreshReturned
  /\ Cardinality(last.arg.prev_infos) = 2
  /\ Len(displays) = 1
  /\ ~GetScreenInfo(1).ok

\* C19: for every registry state, the empty one included, get_screen_info(i)
\* returns the entry with index i if i is registered and otherwise fails
\* with the not-found error for i; get_primary_screen returns an entry with
\* is_primary = TRUE if one exists and otherwise fails with NoPrimaryScreen.
C19_LookupsReturnEntryOrError ==
  /\ (last.op = "get_screen_info") =>
       IF last.arg \in DOMAIN screen_cache
       THEN /\ last.res.ok
            /\ last.res.val.index = last.arg
            /\ last.res.val \in RegisteredInfos
       ELSE Failed(ScreenInfoNotFound(last.arg))
  /\ (last.op = "get_primary_screen") =>
       IF PrimaryCount > 0
       THEN /\ last.res.ok
            /\ last.res.val.is_primary
            /\ last.res.val \in RegisteredInfos
       ELSE Failed(NoPrimaryScreen)

\* get_primary_screen returned its error on a service with an empty registry.
C19_Witness ==
  /\ constructed
  /\ DOMAIN screen_cache = {}
  /\ last.op = "get_primary_screen"
  /\ Failed(NoPrimaryScreen)

CaptureScreenReturned == last.op = "capture_screen_by_index"

\* C20: capture_screen_by_index reports an out-of-range index as
\* ScreenNotFound, a platform refusal as CaptureFailed(index) and an
\* undecodable buffer as DecodeFailed, and the returned error value of a
\* decode failure differs from that of every capture failure.
C20_CaptureErrorsAreDistinct ==
  CaptureScreenReturned =>
    IF last.arg \notin 0..(Len(screens) - 1)
    THEN Failed(ScreenNotFound(last.arg))
    ELSE /\ (last.outcome = "refused") =>
              /\ Failed(CaptureFailed(last.arg))
              /\ ~SameError(last.res.err, DecodeFailed)
              /\ last.res.err.msg # DecodeFailed.msg
         /\ (last.outcome = "undecodable") =>
              /\ Failed(DecodeFailed)
              /\ \A i \in ScreenIndices :
                   /\ ~SameError(last.res.err, CaptureFailed(i))
                   /\ last.res.err.msg # CaptureFailed(i).msg
         /\ (last.outcome = "image") => last.res.ok

\* The decoder rejected the buffer of a registered screen.
C20_Witness ==
  /\ CaptureScreenReturned
  /\ last.arg \in 0..(Len(screens) - 1)
  /\ last.outcome = "undecodable"
  /\ Failed(DecodeFailed)

\* Two results of a capture are the same outcome.
SameCaptureResult(r, q) ==
  /\ r.ok = q.ok
  /\ r.ok => SameImage(r.val, q.val)
  /\ ~r.ok => SameError(r.err, q.err)

\* The keys of the registry entries flagged primary.
PrimaryKeys == { i \in DOMAIN screen_cache : screen_cache[i].is_primary }

\* C21: capture_primary_screen returns exactly the outcome of
\* capture_screen_by_index(p.index) for the registry entry p with
\* is_primary = TRUE, and when no entry is primary it fails with
\* NoPrimaryScreen without invoking the platform capture primitive.
C21_PrimaryCaptureDelegates ==
  (last.op = "capture_primary_screen") =>
    IF PrimaryKeys = {}
    THEN Failed(NoPrimaryScreen) /\ last.captures = 0
    ELSE \E i \in PrimaryKeys :
           LET delegated == CaptureScreenByIndex(screen_cache[i].index, last.outcome)
           IN  /\ SameCaptureResult(last.res, delegated.res)
               /\ last.captures = delegated.captures

\* The primary screen was captured on a service with two screens whose map
\* iterates the primary entry last.
C21_Witness ==
  /\ last.op = "capture_primary_screen"
  /\ last.res.ok
  /\ Len(screens) = 2
  /\ iter_order = <<1, 0>>
  /\ last.res.val.screen = 0

CaptureOps == {"capture_screen_by_index", "capture_primary_screen", "capture_area"}

\* C22: no retries are performed internally: each call of
\* capture_screen_by_index, capture_primary_screen or capture_area invokes
\* the platform capture primitive at most once, and a failed capture or
\* decode is returned to the caller without a second attempt.
C22_NoInternalRetry ==
  (last.op \in CaptureOps) =>
    /\ last.captures <= 1
    /\ (last.captures = 1 /\ last.outcome # "image") =>
         /\ ~last.res.ok
         /\ last.res.err.msg = (IF last.outcome = "refused"
                                THEN "Failed to capture screen {}"
                                ELSE "Failed to decode PNG data: {}")

\* capture_area returned the refusal of the platform after one attempt.
C22_Witness ==
  /\ last.op = "capture_area"
  /\ last.outcome = "refused"
  /\ last.captures = 1
  /\ ~last.res.ok

\* The service holds no screen and no registry entry.
EmptyService == constructed /\ screens = << >> /\ DOMAIN screen_cache = {}

\* C23: CaptureService::default() always returns a service; when no screen
\* can be enumerated the service's screen list and registry are both empty,
\* and on that service every query returns a value or an error.
C23_DefaultGivesUsableService ==
  /\ (last.op = "default") =>
       /\ constructed
       /\ last.res.ok
       /\ (Len(displays) = 0) => EmptyService
  /\ EmptyService =>
       /\ last.res.ok \/ last.res.err.variant = "ScreenCapture"
       /\ (last.op = "get_screens") => last.res.val = << >>
       /\ (last.op = "get_screen_info") => Failed(ScreenInfoNotFound(last.arg))
       /\ (last.op = "get_primary_screen") => Failed(NoPrimaryScreen)
       /\ (last.op = "get_desktop_bounds") => last.res.val.path = "default"
       /\ (last.op = "find_screen_at_point") => ~last.res.val.some
       /\ (last.op = "create_capture_area") => Failed(SelectionNotOnScreen)
       /\ (last.op = "capture_screen_by_index") => Failed(ScreenNotFound(last.arg))
       /\ (last.op = "capture_primary_screen") => Failed(NoPrimaryScreen)
       /\ (last.op = "capture_area") => Failed(ScreenNotFound(last.arg.screen_index))
       /\ (last.op \in CaptureOps) => last.captures = 0

\* default() returned the empty service because no display was enumerated.
C23_Witness ==
  /\ last.op = "default"
  /\ Len(displays) = 0
  /\ EmptyService

\* The executor of the last capture_area call failed.
ExecutorFailed ==
  /\ last.op = "capture_area"
  /\ \/ last.arg.screen_index \notin 0..(Len(screens) - 1)
     \/ last.outcome # "image"

\* C25: capture_area captures the full screen first and validates the
\* rectangle afterwards, returning any executor error unchanged: when the
\* screen index is invalid or the capture fails, also with a rectangle that
\* is out of bounds, the result is the executor's error, not
\* AreaOutOfBounds, and the crop is not reached.
C25_ExecutorErrorComesFirst ==
  ExecutorFailed =>
    /\ ~last.res.ok
    /\ ~last.cropped
    /\ ~SameError(last.res.err, AreaOutOfBounds)
    /\ SameError(last.res.err,
                 IF last.arg.screen_index \notin 0..(Len(screens) - 1)
                 THEN ScreenNotFound(last.arg.screen_index)
                 ELSE IF last.outcome = "refused"
                 THEN CaptureFailed(last.arg.screen_index)
                 ELSE DecodeFailed)
    /\ last.captures = (IF last.arg.screen_index \in 0..(Len(screens) - 1)
                        THEN 1 ELSE 0)

\* The platform refused the capture for an area with a negative min corner
\* on a registered screen.
C25_Witness ==
  /\ last.op = "capture_area"
  /\ last.arg.screen_index \in DOMAIN screen_cache
  /\ last.arg.bounds.min.x < 0
  /\ last.outcome = "refused"
  /\ Failed(CaptureFailed(last.arg.screen_index))

\* The DPI factors of the area differ from those of its registry entry.
DpiDisagrees(area) ==
  \/ area.dpi_scale_x # screen_cache[area.screen_index].dpi_scale_x
  \/ area.dpi_scale_y # screen_cache[area.screen_index].dpi_scale_y

\* The requested physical rectangle of an area, scaled with the area's own
\* DPI factors, leaves the limit bounds.max of its registry entry scaled with
\* the factors (limit_scale_x, limit_scale_y).  Numerators over DpiDen.
BeyondLimit(area, limit_scale_x, limit_scale_y) ==
  \/ area.bounds.min.x * area.dpi_scale_x < 0
  \/ area.bounds.min.y * area.dpi_scale_y < 0
  \/ area.bounds.max.x * area.dpi_scale_x
       > screen_cache[area.screen_index].bounds.max.x * limit_scale_x
  \/ area.bounds.max.y * area.dpi_scale_y
       > screen_cache[area.screen_index].bounds.max.y * limit_scale_y

\* C26: capture_area computes the requested physical rectangle with the
\* area's own DPI factors and the limit of the screen with the registry's
\* DPI scale for area.screen_index; when the two disagree acceptance is
\* decided by the registry's value, never by the area's.
C26_RegistryDpiDecidesAcceptance ==
  (AreaCaptured /\ DpiDisagrees(last.arg)) =>
    ( Failed(AreaOutOfBounds)
      <=> BeyondLimit(last.arg,
                      screen_cache[last.arg.screen_index].dpi_scale_x,
                      screen_cache[last.arg.screen_index].dpi_scale_y) )

\* An area of scale 1.5 was rejected on a screen the registry holds at scale
\* 1.0, and the area's own scale would have accepted it.
C26_Witness ==
  /\ AreaCaptured
  /\ DpiDisagrees(last.arg)
  /\ Failed(AreaOutOfBounds)
  /\ ~BeyondLimit(last.arg, last.arg.dpi_scale_x, last.arg.dpi_scale_y)

QueryOps ==
  { "get_screens", "get_screen_info", "get_primary_screen", "get_desktop_bounds",
    "find_screen_at_point", "create_capture_area", "capture_screen_by_index",
    "capture_primary_screen", "capture_area" }

\* C27: every operation other than construction and refresh leaves the
\* registry and the platform screen list of the service unchanged, whether
\* it succeeds or fails.
C27_QueriesKeepRegistry ==
  [][ (last'.op \in QueryOps) => UNCHANGED <<screens, screen_cache, iter_order>> ]_vars

\* capture_area returned an image on a service with two screens.
C27_Witness ==
  /\ last.op = "capture_area"
  /\ last.res.ok
  /\ DOMAIN screen_cache = {0, 1}
  /\ Len(screens) = 2

\* C29: in every reachable state the registry and the platform screen list
\* agree: the registry's keys are exactly 0..len(screens)-1 and each entry's
\* index equals its key, so capture_screen_by_index(i) finds a platform
\* handle if and only if get_screen_info(i) succeeds.
C29_RegistryMatchesScreenList ==
  /\ DOMAIN screen_cache = 0..(Len(screens) - 1)
  /\ \A i \in DOMAIN screen_cache : screen_cache[i].index = i
  /\ \A i \in ScreenIndices :
       GetScreenInfo(i).ok <=>
         ~SameCaptureResult(CaptureScreenByIndex(i, "image").res, Err(ScreenNotFound(i)))

\* After a refresh from two screens to one, the index 1 has neither a
\* platform handle nor a registry entry.
C29_Witness ==
  /\ RefreshReturned
  /\ Len(last.arg.prev_screens) = 2
  /\ Len(screens) = 1
  /\ ~CaptureScreenByIndex(1, "image").res.ok
  /\ ~GetScreenInfo(1).ok

\* C30: a stale area is rejected safely: when area.screen_index is not
\* registered (the refresh left fewer screens), capture_area fails with
\* ScreenNotFound without invoking the platform capture primitive or the
\* crop.
C30_StaleAreaRejected ==
  (last.op = "capture_area" /\ last.arg.screen_index \notin DOMAIN screen_cache) =>
    /\ Failed(ScreenNotFound(last.arg.screen_index))
    /\ last.captures = 0
    /\ ~last.cropped

\* capture_area was called for screen 1 on a service that holds one screen.
C30_Witness ==
  /\ last.op = "capture_area"
  /\ last.arg.screen_index = 1
  /\ DOMAIN screen_cache = {0}
  /\ last.outcome = "image"
  /\ Failed(ScreenNotFound(1))

\* The registry is the complete rebuild of the screen list the service holds.
CompleteSnapshot ==
  /\ DOMAIN screen_cache = 0..(Len(screens) - 1)
  /\ \A i \in DOMAIN screen_cache :
       /\ screen_cache[i].index = i
       /\ screen_cache[i].bounds.min.x = screens[i + 1].x
       /\ screen_cache[i].bounds.min.y = screens[i + 1].y
       /\ RectWidth(screen_cache[i].bounds) = screens[i + 1].width
       /\ RectHeight(screen_cache[i].bounds) = screens[i + 1].height
       /\ screen_cache[i].is_primary = (i = 0)

\* C28: no query observes the registry in the cleared or partially rebuilt
\* state of a refresh: every call of get_screens, get_screen_info,
\* get_primary_screen, get_desktop_bounds, find_screen_at_point,
\* create_capture_area or a capture operation sees a complete snapshot, the
\* one before the refresh or the one after it.
C28_QueriesSeeCompleteSnapshots ==
  (last.op \in QueryOps) => CompleteSnapshot

\* A refresh over two screens has inserted the first entry and not yet the
\* second.
C28_Witness ==
  /\ Refreshing("enumerated")
  /\ Len(screens) = 2
  /\ DOMAIN screen_cache = {0}
  /\ ~CompleteSnapshot

LoadImageReturned == last.op = "load_image"

\* C24: load_image always succeeds and, whatever the previous view state,
\* stores the image, resets zoom_level to 1.0 and pan_offset to zero and
\* drops the cached texture, while leaving current_tool, annotations and
\* should_close unchanged.
C24_LoadImageResetsView ==
  LoadImageReturned =>
    /\ last.res.ok
    /\ editor.source_image.some
    /\ editor.source_image.val.width = last.arg.image.width
    /\ editor.source_image.val.height = last.arg.image.height
    /\ editor.zoom_level = 100
    /\ editor.pan_offset.x = 0
    /\ editor.pan_offset.y = 0
    /\ ~editor.texture.some
    /\ editor.current_tool = last.arg.before.current_tool
    /\ editor.annotations = last.arg.before.annotations
    /\ editor.should_close = last.arg.before.should_close

\* An image was loaded over another one that was drawn zoomed and panned
\* with a tool other than the default selected.
C24_Witness ==
  /\ LoadImageReturned
  /\ last.arg.before.texture.some
  /\ last.arg.before.zoom_level # 100
  /\ last.arg.before.pan_offset.x # 0
  /\ last.arg.before.current_tool = "Rectangle"
  /\ last.arg.before.source_image.val.width # last.arg.image.width

====
